---- MODULE Spec2Model ----
(***************************************************************************)
(* Model of the sn3218 driver (src/library/sn3218.py): the register        *)
(* encoding of the 18-channel enable mask, the per-channel gamma tables,   *)
(* the i2c write/latch protocol, and the calibration utility's threads.    *)
(*                                                                         *)
(* Python values that the code type-checks are tagged records              *)
(* [type, val]; Python lists are sequences (Python index i is position     *)
(* i + 1).  The gamma tables of the module are list objects: a variable    *)
(* that holds one holds a reference [kind, n], and ListOf gives the        *)
(* object's contents.  No code of the module writes into a list in place, *)
(* so a list object's contents never change after it is built.             *)
(***************************************************************************)
EXTENDS Integers, Sequences, FiniteSets, TLC

\* ------------------------------------------------------------------------
\* Program constants
\* ------------------------------------------------------------------------
I2C_ADDRESS == 84
CMD_ENABLE_OUTPUT == 0
CMD_SET_PWM_VALUES == 1
CMD_ENABLE_LEDS == 19
CMD_UPDATE == 22
CMD_RESET == 23

\* number of channels: range(18), len(values) != 18, [..] * 18
NumChannels == 18
\* length of a gamma table: range(256), len(gamma_table) != 256
TableLen == 256
\* the payload of the update and reset commands, and the top PWM value
FullByte == 255
\* bitmask = 0b111111 in enable_leds
bitmask == 63
\* GAMMA = 1.4, in tenths
InitialGAMMA == 14
\* DELAY = 0.01, in thousandths of a second
InitialDELAY == 10

\* ------------------------------------------------------------------------
\* Bounds of the model
\* ------------------------------------------------------------------------
\* calls the client of the library makes after importing it
MaxCalls == 2
\* bus writes remembered: the trace keeps the most recent MaxBus writes
MaxBus == 3
\* key presses the input loop handles before the quitting key
MaxKeys == 1
\* the same, for a user who has brought DELAY down to DelayLeft thousandths
\* and presses only KEY_LEFT and KEY_RIGHT
MaxDelayKeys == 2
DelayLeft == 2
\* elements the list comprehension of output() looks up before another
\* thread can run
LookupsPerStep == 9
\* bus writes counted: the count stops at MaxWrites
MaxWrites == 9

\* ------------------------------------------------------------------------
\* Python integers: & and >> on arbitrary-precision two's complement
\* ------------------------------------------------------------------------
RECURSIVE Pow2(_)
Pow2(k) == IF k = 0 THEN 1 ELSE 2 * Pow2(k - 1)

\* a & b for b >= 0, bit by bit (a may be negative: infinitely many leading
\* 1 bits, of which b selects finitely many)
RECURSIVE BitAnd(_, _)
BitAnd(a, b) ==
    IF b = 0 THEN 0
    ELSE (a % 2) * (b % 2) + 2 * BitAnd(a \div 2, b \div 2)

\* a >> k: arithmetic shift, floor(a / 2^k)
ShiftRight(a, k) == a \div Pow2(k)

\* a | b for a, b >= 0
RECURSIVE BitOr(_, _)
BitOr(a, b) ==
    IF a = 0 /\ b = 0 THEN 0
    ELSE (IF a % 2 = 1 \/ b % 2 = 1 THEN 1 ELSE 0) + 2 * BitOr(a \div 2, b \div 2)

\* ------------------------------------------------------------------------
\* Python values and lists
\* ------------------------------------------------------------------------
PyInt(n) == [type |-> "int", val |-> n]
PyStr(s) == [type |-> "str", val |-> s]
PyList(s) == [type |-> "list", val |-> s]
PyTuple(s) == [type |-> "tuple", val |-> s]

\* [x] * n
Repeat(x, n) == [k \in 1..n |-> x]

\* list[i]: a negative index counts from the end; outside -len..len-1 the
\* lookup raises IndexError
InRange(list, i) == -Len(list) <= i /\ i < Len(list)
\* (mutant) an index from the front taken one place too far
GetItemOffByOne(list, i) ==
    IF i >= 0 THEN list[((i + 1) % Len(list)) + 1] ELSE list[Len(list) + i + 1]

GetItem(list, i) == IF i >= 0 THEN list[i + 1] ELSE list[Len(list) + i + 1]

\* ------------------------------------------------------------------------
\* [int(255 * (i / 255) ** GAMMA) for i in range(256)], GAMMA in tenths
\* ------------------------------------------------------------------------
\* the exponents (in tenths) a client sets: those of the linear-fade test
\* that are steps of 0.2 from the default, and 2.0
ClientGammas == {10, 12, 16, 20}

\* the exponents whose tables the model builds: the ones the client sets and
\* the ones MaxKeys presses of KEY_UP / KEY_DOWN reach
GammaRange ==
    ClientGammas \cup ((InitialGAMMA - MaxKeys)..(InitialGAMMA + MaxKeys))

\* For a fractional exponent the entries are the values the expression has
\* in IEEE double arithmetic, listed for GAMMA = 1.1 .. 1.9 (position g is
\* the table of GAMMA = g / 10).
FractionalTables ==
   <<
      <<>>,
      <<>>,
      <<>>,
      <<>>,
      <<>>,
      <<>>,
      <<>>,
      <<>>,
      <<>>,
      <<>>,
      \* GAMMA = 1.1
      << 0, 0, 1, 1, 2, 3, 4, 4, 5, 6, 7, 8, 8, 9, 10, 11,
          12, 12, 13, 14, 15, 16, 17, 18, 18, 19, 20, 21, 22, 23, 24, 25,
          26, 26, 27, 28, 29, 30, 31, 32, 33, 34, 35, 35, 36, 37, 38, 39,
          40, 41, 42, 43, 44, 45, 46, 47, 48, 49, 50, 50, 51, 52, 53, 54,
          55, 56, 57, 58, 59, 60, 61, 62, 63, 64, 65, 66, 67, 68, 69, 70,
          71, 72, 73, 74, 75, 76, 77, 78, 79, 80, 81, 82, 83, 84, 85, 86,
          87, 88, 89, 90, 91, 92, 93, 94, 95, 96, 97, 98, 99, 100, 101, 102,
          103, 104, 105, 106, 107, 108, 109, 110, 111, 112, 113, 114, 115, 116, 117, 118,
          119, 120, 121, 122, 123, 124, 125, 126, 127, 128, 129, 130, 131, 132, 133, 134,
          136, 137, 138, 139, 140, 141, 142, 143, 144, 145, 146, 147, 148, 149, 150, 151,
          152, 153, 154, 155, 156, 157, 159, 160, 161, 162, 163, 164, 165, 166, 167, 168,
          169, 170, 171, 172, 173, 174, 175, 177, 178, 179, 180, 181, 182, 183, 184, 185,
          186, 187, 188, 189, 190, 191, 193, 194, 195, 196, 197, 198, 199, 200, 201, 202,
          203, 204, 205, 207, 208, 209, 210, 211, 212, 213, 214, 215, 216, 217, 218, 220,
          221, 222, 223, 224, 225, 226, 227, 228, 229, 230, 231, 233, 234, 235, 236, 237,
          238, 239, 240, 241, 242, 244, 245, 246, 247, 248, 249, 250, 251, 252, 253, 255 >>,
      \* GAMMA = 1.2
      << 0, 0, 0, 1, 1, 2, 2, 3, 4, 4, 5, 5, 6, 7, 7, 8,
          9, 9, 10, 11, 12, 12, 13, 14, 14, 15, 16, 17, 18, 18, 19, 20,
          21, 21, 22, 23, 24, 25, 25, 26, 27, 28, 29, 30, 30, 31, 32, 33,
          34, 35, 36, 36, 37, 38, 39, 40, 41, 42, 43, 44, 44, 45, 46, 47,
          48, 49, 50, 51, 52, 53, 54, 54, 55, 56, 57, 58, 59, 60, 61, 62,
          63, 64, 65, 66, 67, 68, 69, 70, 71, 72, 73, 74, 75, 76, 76, 77,
          78, 79, 80, 81, 82, 83, 84, 85, 86, 87, 88, 89, 90, 91, 92, 93,
          95, 96, 97, 98, 99, 100, 101, 102, 103, 104, 105, 106, 107, 108, 109, 110,
          111, 112, 113, 114, 115, 116, 117, 118, 119, 120, 122, 123, 124, 125, 126, 127,
          128, 129, 130, 131, 132, 133, 134, 135, 137, 138, 139, 140, 141, 142, 143, 144,
          145, 146, 147, 149, 150, 151, 152, 153, 154, 155, 156, 157, 158, 160, 161, 162,
          163, 164, 165, 166, 167, 169, 170, 171, 172, 173, 174, 175, 176, 178, 179, 180,
          181, 182, 183, 184, 185, 187, 188, 189, 190, 191, 192, 193, 195, 196, 197, 198,
          199, 200, 202, 203, 204, 205, 206, 207, 208, 210, 211, 212, 213, 214, 215, 217,
          218, 219, 220, 221, 222, 224, 225, 226, 227, 228, 230, 231, 232, 233, 234, 235,
          237, 238, 239, 240, 241, 243, 244, 245, 246, 247, 249, 250, 251, 252, 253, 255 >>,
      \* GAMMA = 1.3
      << 0, 0, 0, 0, 1, 1, 1, 2, 2, 3, 3, 4, 4, 5, 5, 6,
          6, 7, 8, 8, 9, 9, 10, 11, 11, 12, 13, 13, 14, 15, 15, 16,
          17, 17, 18, 19, 20, 20, 21, 22, 22, 23, 24, 25, 25, 26, 27, 28,
          29, 29, 30, 31, 32, 33, 33, 34, 35, 36, 37, 38, 38, 39, 40, 41,
          42, 43, 43, 44, 45, 46, 47, 48, 49, 50, 51, 51, 52, 53, 54, 55,
          56, 57, 58, 59, 60, 61, 62, 63, 63, 64, 65, 66, 67, 68, 69, 70,
          71, 72, 73, 74, 75, 76, 77, 78, 79, 80, 81, 82, 83, 84, 85, 86,
          87, 88, 89, 90, 91, 92, 93, 94, 95, 96, 97, 98, 99, 100, 101, 103,
          104, 105, 106, 107, 108, 109, 110, 111, 112, 113, 114, 115, 116, 118, 119, 120,
          121, 122, 123, 124, 125, 126, 127, 129, 130, 131, 132, 133, 134, 135, 136, 137,
          139, 140, 141, 142, 143, 144, 145, 147, 148, 149, 150, 151, 152, 153, 155, 156,
          157, 158, 159, 160, 162, 163, 164, 165, 166, 168, 169, 170, 171, 172, 173, 175,
          176, 177, 178, 179, 181, 182, 183, 184, 185, 187, 188, 189, 190, 192, 193, 194,
          195, 196, 198, 199, 200, 201, 203, 204, 205, 206, 207, 209, 210, 211, 212, 214,
          215, 216, 217, 219, 220, 221, 222, 224, 225, 226, 228, 229, 230, 231, 233, 234,
          235, 236, 238, 239, 240, 242, 243, 244, 245, 247, 248, 249, 251, 252, 253, 255 >>,
      \* GAMMA = 1.4
      << 0, 0, 0, 0, 0, 1, 1, 1, 2, 2, 2, 3, 3, 3, 4, 4,
          5, 5, 6, 6, 7, 7, 8, 8, 9, 9, 10, 10, 11, 12, 12, 13,
          13, 14, 15, 15, 16, 17, 17, 18, 19, 19, 20, 21, 21, 22, 23, 23,
          24, 25, 26, 26, 27, 28, 29, 29, 30, 31, 32, 32, 33, 34, 35, 36,
          36, 37, 38, 39, 40, 40, 41, 42, 43, 44, 45, 45, 46, 47, 48, 49,
          50, 51, 52, 52, 53, 54, 55, 56, 57, 58, 59, 60, 61, 62, 63, 64,
          64, 65, 66, 67, 68, 69, 70, 71, 72, 73, 74, 75, 76, 77, 78, 79,
          80, 81, 82, 83, 84, 85, 86, 87, 88, 89, 90, 91, 92, 93, 95, 96,
          97, 98, 99, 100, 101, 102, 103, 104, 105, 106, 107, 109, 110, 111, 112, 113,
          114, 115, 116, 117, 119, 120, 121, 122, 123, 124, 125, 127, 128, 129, 130, 131,
          132, 133, 135, 136, 137, 138, 139, 140, 142, 143, 144, 145, 146, 148, 149, 150,
          151, 152, 154, 155, 156, 157, 159, 160, 161, 162, 163, 165, 166, 167, 168, 170,
          171, 172, 173, 175, 176, 177, 178, 180, 181, 182, 184, 185, 186, 187, 189, 190,
          191, 193, 194, 195, 196, 198, 199, 200, 202, 203, 204, 206, 207, 208, 210, 211,
          212, 214, 215, 216, 218, 219, 220, 222, 223, 224, 226, 227, 228, 230, 231, 232,
          234, 235, 236, 238, 239, 241, 242, 243, 245, 246, 248, 249, 250, 252, 253, 255 >>,
      \* GAMMA = 1.5
      << 0, 0, 0, 0, 0, 0, 0, 1, 1, 1, 1, 2, 2, 2, 3, 3,
          4, 4, 4, 5, 5, 6, 6, 6, 7, 7, 8, 8, 9, 9, 10, 10,
          11, 11, 12, 12, 13, 14, 14, 15, 15, 16, 17, 17, 18, 18, 19, 20,
          20, 21, 22, 22, 23, 24, 24, 25, 26, 26, 27, 28, 29, 29, 30, 31,
          32, 32, 33, 34, 35, 35, 36, 37, 38, 39, 39, 40, 41, 42, 43, 43,
          44, 45, 46, 47, 48, 49, 49, 50, 51, 52, 53, 54, 55, 56, 57, 57,
          58, 59, 60, 61, 62, 63, 64, 65, 66, 67, 68, 69, 70, 71, 72, 73,
          74, 75, 76, 77, 78, 79, 80, 81, 82, 83, 84, 85, 86, 87, 88, 89,
          90, 91, 92, 93, 94, 96, 97, 98, 99, 100, 101, 102, 103, 104, 105, 107,
          108, 109, 110, 111, 112, 113, 115, 116, 117, 118, 119, 120, 122, 123, 124, 125,
          126, 127, 129, 130, 131, 132, 133, 135, 136, 137, 138, 140, 141, 142, 143, 144,
          146, 147, 148, 149, 151, 152, 153, 155, 156, 157, 158, 160, 161, 162, 164, 165,
          166, 167, 169, 170, 171, 173, 174, 175, 177, 178, 179, 181, 182, 183, 185, 186,
          187, 189, 190, 191, 193, 194, 196, 197, 198, 200, 201, 202, 204, 205, 207, 208,
          209, 211, 212, 214, 215, 217, 218, 219, 221, 222, 224, 225, 227, 228, 229, 231,
          232, 234, 235, 237, 238, 240, 241, 243, 244, 246, 247, 249, 250, 252, 253, 255 >>,
      \* GAMMA = 1.6
      << 0, 0, 0, 0, 0, 0, 0, 0, 1, 1, 1, 1, 1, 2, 2, 2,
          3, 3, 3, 4, 4, 4, 5, 5, 5, 6, 6, 7, 7, 7, 8, 8,
          9, 9, 10, 10, 11, 11, 12, 12, 13, 13, 14, 14, 15, 15, 16, 17,
          17, 18, 18, 19, 20, 20, 21, 21, 22, 23, 23, 24, 25, 25, 26, 27,
          27, 28, 29, 30, 30, 31, 32, 32, 33, 34, 35, 35, 36, 37, 38, 39,
          39, 40, 41, 42, 43, 43, 44, 45, 46, 47, 48, 49, 49, 50, 51, 52,
          53, 54, 55, 56, 57, 57, 58, 59, 60, 61, 62, 63, 64, 65, 66, 67,
          68, 69, 70, 71, 72, 73, 74, 75, 76, 77, 78, 79, 80, 81, 82, 83,
          84, 85, 86, 87, 88, 89, 91, 92, 93, 94, 95, 96, 97, 98, 99, 101,
          102, 103, 104, 105, 106, 107, 109, 110, 111, 112, 113, 114, 116, 117, 118, 119,
          120, 122, 123, 124, 125, 127, 128, 129, 130, 132, 133, 134, 135, 137, 138, 139,
          140, 142, 143, 144, 146, 147, 148, 149, 151, 152, 153, 155, 156, 157, 159, 160,
          161, 163, 164, 166, 167, 168, 170, 171, 172, 174, 175, 177, 178, 179, 181, 182,
          184, 185, 186, 188, 189, 191, 192, 194, 195, 196, 198, 199, 201, 202, 204, 205,
          207, 208, 210, 211, 213, 214, 216, 217, 219, 220, 222, 223, 225, 226, 228, 229,
          231, 232, 234, 236, 237, 239, 240, 242, 243, 245, 247, 248, 250, 251, 253, 255 >>,
      \* GAMMA = 1.7
      << 0, 0, 0, 0, 0, 0, 0, 0, 0, 0, 1, 1, 1, 1, 1, 2,
          2, 2, 2, 3, 3, 3, 3, 4, 4, 4, 5, 5, 5, 6, 6, 7,
          7, 7, 8, 8, 9, 9, 10, 10, 10, 11, 11, 12, 12, 13, 13, 14,
          14, 15, 15, 16, 17, 17, 18, 18, 19, 19, 20, 21, 21, 22, 23, 23,
          24, 24, 25, 26, 26, 27, 28, 29, 29, 30, 31, 31, 32, 33, 34, 34,
          35, 36, 37, 37, 38, 39, 40, 40, 41, 42, 43, 44, 45, 45, 46, 47,
          48, 49, 50, 51, 51, 52, 53, 54, 55, 56, 57, 58, 59, 60, 61, 62,
          62, 63, 64, 65, 66, 67, 68, 69, 70, 71, 72, 73, 74, 75, 76, 77,
          79, 80, 81, 82, 83, 84, 85, 86, 87, 88, 89, 90, 92, 93, 94, 95,
          96, 97, 98, 99, 101, 102, 103, 104, 105, 107, 108, 109, 110, 111, 113, 114,
          115, 116, 117, 119, 120, 121, 122, 124, 125, 126, 127, 129, 130, 131, 133, 134,
          135, 137, 138, 139, 141, 142, 143, 145, 146, 147, 149, 150, 151, 153, 154, 156,
          157, 158, 160, 161, 163, 164, 165, 167, 168, 170, 171, 173, 174, 175, 177, 178,
          180, 181, 183, 184, 186, 187, 189, 190, 192, 193, 195, 196, 198, 199, 201, 203,
          204, 206, 207, 209, 210, 212, 213, 215, 217, 218, 220, 221, 223, 225, 226, 228,
          230, 231, 233, 234, 236, 238, 239, 241, 243, 244, 246, 248, 249, 251, 253, 255 >>,
      \* GAMMA = 1.8
      << 0, 0, 0, 0, 0, 0, 0, 0, 0, 0, 0, 0, 1, 1, 1, 1,
          1, 1, 2, 2, 2, 2, 3, 3, 3, 3, 4, 4, 4, 5, 5, 5,
          6, 6, 6, 7, 7, 7, 8, 8, 9, 9, 9, 10, 10, 11, 11, 12,
          12, 13, 13, 14, 14, 15, 15, 16, 16, 17, 17, 18, 18, 19, 20, 20,
          21, 21, 22, 22, 23, 24, 24, 25, 26, 26, 27, 28, 28, 29, 30, 30,
          31, 32, 33, 33, 34, 35, 36, 36, 37, 38, 39, 39, 40, 41, 42, 43,
          43, 44, 45, 46, 47, 48, 49, 49, 50, 51, 52, 53, 54, 55, 56, 57,
          57, 58, 59, 60, 61, 62, 63, 64, 65, 66, 67, 68, 69, 70, 71, 72,
          73, 74, 75, 76, 77, 79, 80, 81, 82, 83, 84, 85, 86, 87, 88, 90,
          91, 92, 93, 94, 95, 96, 98, 99, 100, 101, 102, 104, 105, 106, 107, 108,
          110, 111, 112, 113, 115, 116, 117, 119, 120, 121, 122, 124, 125, 126, 128, 129,
          130, 132, 133, 134, 136, 137, 138, 140, 141, 143, 144, 145, 147, 148, 150, 151,
          153, 154, 155, 157, 158, 160, 161, 163, 164, 166, 167, 169, 170, 172, 173, 175,
          176, 178, 179, 181, 182, 184, 185, 187, 189, 190, 192, 193, 195, 197, 198, 200,
          201, 203, 205, 206, 208, 210, 211, 213, 215, 216, 218, 220, 221, 223, 225, 226,
          228, 230, 232, 233, 235, 237, 239, 240, 242, 244, 246, 247, 249, 251, 253, 255 >>,
      \* GAMMA = 1.9
      << 0, 0, 0, 0, 0, 0, 0, 0, 0, 0, 0, 0, 0, 0, 1, 1,
          1, 1, 1, 1, 2, 2, 2, 2, 2, 3, 3, 3, 3, 4, 4, 4,
          4, 5, 5, 5, 6, 6, 6, 7, 7, 7, 8, 8, 9, 9, 9, 10,
          10, 11, 11, 11, 12, 12, 13, 13, 14, 14, 15, 15, 16, 16, 17, 17,
          18, 18, 19, 20, 20, 21, 21, 22, 23, 23, 24, 24, 25, 26, 26, 27,
          28, 28, 29, 30, 30, 31, 32, 33, 33, 34, 35, 35, 36, 37, 38, 39,
          39, 40, 41, 42, 43, 43, 44, 45, 46, 47, 48, 48, 49, 50, 51, 52,
          53, 54, 55, 56, 57, 58, 58, 59, 60, 61, 62, 63, 64, 65, 66, 67,
          68, 69, 70, 71, 72, 74, 75, 76, 77, 78, 79, 80, 81, 82, 83, 84,
          86, 87, 88, 89, 90, 91, 93, 94, 95, 96, 97, 99, 100, 101, 102, 103,
          105, 106, 107, 108, 110, 111, 112, 114, 115, 116, 118, 119, 120, 122, 123, 124,
          126, 127, 128, 130, 131, 132, 134, 135, 137, 138, 140, 141, 142, 144, 145, 147,
          148, 150, 151, 153, 154, 156, 157, 159, 160, 162, 163, 165, 166, 168, 170, 171,
          173, 174, 176, 177, 179, 181, 182, 184, 186, 187, 189, 190, 192, 194, 195, 197,
          199, 201, 202, 204, 206, 207, 209, 211, 213, 214, 216, 218, 220, 221, 223, 225,
          227, 229, 230, 232, 234, 236, 238, 240, 241, 243, 245, 247, 249, 251, 253, 255 >>
   >>

\* int(255 * (i / 255) ** GAMMA): int() truncates.  For GAMMA = 1.0 and
\* GAMMA = 2.0 the power is the rational i / 255 and i * i / 255^2.
GammaEntry(g, i) ==
    IF g = 10 THEN (FullByte * i) \div FullByte
    ELSE IF g = 20 THEN (FullByte * i * i) \div (FullByte * FullByte)
    ELSE FractionalTables[g][i + 1]

\* the generated tables, each an explicit tuple
MaxExponent == 20
GammaTables ==
    SubSeq([g \in 1..MaxExponent |->
                IF g \in GammaRange
                THEN SubSeq([k \in 1..TableLen |-> GammaEntry(g, k - 1)], 1, TableLen)
                ELSE <<>>], 1, MaxExponent)
GammaList(g) == GammaTables[g]

\* ------------------------------------------------------------------------
\* List objects
\* ------------------------------------------------------------------------
\* SN3218_TABLE7_GAMMA: the 32-entry table of the datasheet
SN3218_TABLE7_GAMMA ==
    <<0, 1, 2, 4, 6, 10, 13, 18, 22, 28, 33, 39, 46, 53, 61, 69,
      78, 86, 96, 106, 116, 126, 138, 149, 161, 173, 186, 199, 212, 226, 240, 255>>

\* lists a caller of channel_gamma brings along: an inverted ramp and a
\* full-on table (256 entries each), and the 32-entry datasheet table
CallerLists ==
    << SubSeq([k \in 1..TableLen |-> FullByte - (k - 1)], 1, TableLen),
       SubSeq([k \in 1..TableLen |-> FullByte], 1, TableLen),
       SN3218_TABLE7_GAMMA >>

\* (mutant) the table of the exponent the module starts with
GeneratedInitial(g) == [kind |-> "gamma", n |-> InitialGAMMA]

\* the list the comprehension over range(256) builds for GAMMA = g / 10
Generated(g) == [kind |-> "gamma", n |-> g]
Brought(n) == [kind |-> "caller", n |-> n]

\* the contents of a list object
ListOf(obj) == IF obj.kind = "gamma" THEN GammaList(obj.n) ELSE CallerLists[obj.n]

\* ------------------------------------------------------------------------
\* State
\* ------------------------------------------------------------------------
Threads == {"main", "fader", "arrows"}
Channels == 0..(NumChannels - 1)

VARIABLES
    bus,                  \* the writes put on the i2c bus, most recent last
    pc,                   \* pc[t]: where thread t is in its own code
    at,                   \* at[t]: where thread t is inside a library call
    frame,                \* frame[t]: thread t's current or last library call
    result,               \* result[t]: how thread t's last library call ended
                          \*   ("none" before the first and during a call)
    channel_gamma_table,  \* the list of 18 references to gamma tables
    default_gamma_table,  \* the reference to the default gamma table
    GAMMA,                \* the exponent, in tenths
    DELAY,                \* the inter-step delay, in thousandths of a second
    b,                    \* fader's brightness
    sel,                  \* fader's position in the colour selector, 1..8
    installed,            \* history: the list channel_gamma last stored per channel
    nwrites,              \* history: the bus writes so far, counted up to MaxWrites
    ncalls,               \* calls the client has made
    nkeys                 \* cursor keys the input loop handles before the quitting key

vars == <<bus, nwrites, pc, at, frame, result, channel_gamma_table, default_gamma_table,
          GAMMA, DELAY, b, sel, installed, ncalls, nkeys>>

gammaVars == <<channel_gamma_table, default_gamma_table, GAMMA, installed>>
faderVars == <<b, sel>>

\* no list: the value of installed[c] while channel_gamma has stored none
NoList == [kind |-> "none", n |-> 0]

\* a call: the function, its arguments, and what it hands to i2c_write
Call(op, args, cmd, data, update) ==
    [op |-> op, args |-> args, cmd |-> cmd, data |-> data, update |-> update]

NoFrame == Call("none", <<>>, 0, <<>>, FALSE)

\* one bus write: i2c.write_i2c_block_data(I2C_ADDRESS, cmd, data) by thread
\* t, the nth write of its call; ok is whether the transport accepted it
BusWrite(cmd, data, t, nth, ok) ==
    [addr |-> I2C_ADDRESS, cmd |-> cmd, data |-> data, by |-> t, nth |-> nth,
     ok |-> ok]

Record(w) ==
    IF Len(bus) < MaxBus THEN Append(bus, w) ELSE Append(Tail(bus), w)

\* one more write on the bus
Counted == IF nwrites < MaxWrites THEN nwrites + 1 ELSE nwrites

\* a thread killed at interpreter exit runs no further
Alive(t) == pc[t] # "killed"

\* an exception leaves the call; the client of the library catches it,
\* a thread of the calibration utility dies of it
Unwind(t) == IF pc[t] = "client" THEN "client" ELSE "dead"

\* (mutant) the exception swallowed and the failed step left to be done again
RaiseRetry(t, exc) == UNCHANGED <<result, at, pc>>

Raise(t, exc) ==
    /\ result' = [result EXCEPT ![t] = exc]
    /\ at' = [at EXCEPT ![t] = "idle"]
    /\ pc' = [pc EXCEPT ![t] = Unwind(t)]

Return(t) ==
    /\ result' = [result EXCEPT ![t] = "ok"]
    /\ at' = [at EXCEPT ![t] = "idle"]

\* thread t enters a library function; next is where t goes on in its own
\* code once the call has returned
Enter(t, next, call, where) ==
    /\ frame' = [frame EXCEPT ![t] = call]
    /\ at' = [at EXCEPT ![t] = where]
    /\ pc' = [pc EXCEPT ![t] = next]
    /\ result' = [result EXCEPT ![t] = "none"]

\* the function raises before it has done anything else
Reject(t, call, exc) ==
    /\ frame' = [frame EXCEPT ![t] = call]
    /\ Raise(t, exc)

\* ------------------------------------------------------------------------
\* i2c_write(*arg, update=False)
\* ------------------------------------------------------------------------
\* (mutant) i2c_write that drops the update write
AfterWriteNoUpdate(update) == "idle"

\* after the first write: the update write if asked for, else return
AfterWrite(update) == IF update THEN "update" ELSE "idle"

\* i2c.write_i2c_block_data(I2C_ADDRESS, *arg)
I2cWrite(t) ==
    /\ Alive(t)
    /\ at[t] = "write"
    /\ \E ok \in BOOLEAN :
        /\ bus' = Record(BusWrite(frame[t].cmd, frame[t].data, t, 1, ok))
        /\ nwrites' = Counted
        /\ IF ~ok
           THEN Raise(t, "IOError")
           ELSE IF AfterWrite(frame[t].update) = "update"
                THEN /\ at' = [at EXCEPT ![t] = "update"]
                     /\ UNCHANGED <<result, pc>>
                ELSE Return(t) /\ UNCHANGED pc
    /\ UNCHANGED <<frame, gammaVars, DELAY, faderVars, ncalls, nkeys>>

\* if update: i2c.write_i2c_block_data(I2C_ADDRESS, CMD_UPDATE, [0xFF])
I2cUpdate(t) ==
    /\ Alive(t)
    /\ at[t] = "update"
    /\ \E ok \in BOOLEAN :
        /\ bus' = Record(BusWrite(CMD_UPDATE, <<FullByte>>, t, 2, ok))
        /\ nwrites' = Counted
        /\ IF ok THEN Return(t) /\ UNCHANGED pc ELSE Raise(t, "IOError")
    /\ UNCHANGED <<frame, gammaVars, DELAY, faderVars, ncalls, nkeys>>

\* ------------------------------------------------------------------------
\* The library's functions, as thread t calls them; next is where t goes on
\* in its own code after the call, unless the call raises.
\* ------------------------------------------------------------------------
\* (mutant) an enable that asks i2c_write for the update write as well
enableLatched(t, next) ==
    Enter(t, next, Call("enable", <<>>, CMD_ENABLE_OUTPUT, <<1>>, TRUE), "write")

enable(t, next) ==
    Enter(t, next, Call("enable", <<>>, CMD_ENABLE_OUTPUT, <<1>>, FALSE), "write")

\* (mutant) a disable that asks i2c_write for the update write as well
disableLatched(t, next) ==
    Enter(t, next, Call("disable", <<>>, CMD_ENABLE_OUTPUT, <<0>>, TRUE), "write")

disable(t, next) ==
    Enter(t, next, Call("disable", <<>>, CMD_ENABLE_OUTPUT, <<0>>, FALSE), "write")

\* (mutant) a reset that also writes the shutdown register
resetShutdown(t, next) ==
    Enter(t, next, Call("reset", <<>>, CMD_ENABLE_OUTPUT, <<0>>, FALSE), "write")

reset(t, next) ==
    Enter(t, next, Call("reset", <<>>, CMD_RESET, <<FullByte>>, FALSE), "write")

\* (mutant) the 18 bits cut into bytes, low byte first
EncodeMaskBytes(m) ==
    << BitAnd(m, 255), BitAnd(ShiftRight(m, 8), 255), BitAnd(ShiftRight(m, 16), 3) >>

\* (mutant) the three groups most significant first
EncodeMaskReversed(m) ==
    << BitAnd(ShiftRight(m, 12), bitmask),
       BitAnd(ShiftRight(m, 6), bitmask),
       BitAnd(m, bitmask) >>

\* the three bytes of register 0x13..0x15
EncodeMask(m) ==
    << BitAnd(m, bitmask),
       BitAnd(ShiftRight(m, 6), bitmask),
       BitAnd(ShiftRight(m, 12), bitmask) >>

enable_leds(t, next, enable_mask) ==
    IF enable_mask.type # "int"
    THEN Reject(t, Call("enable_leds", <<enable_mask>>, CMD_ENABLE_LEDS, <<>>, TRUE),
                "TypeError")
    ELSE Enter(t, next,
               Call("enable_leds", <<enable_mask>>, CMD_ENABLE_LEDS,
                    EncodeMask(enable_mask.val), TRUE),
               "write")

\* which check of channel_gamma the arguments fail, if any
ChannelGammaCheck(channel, gamma_table) ==
    IF channel.type # "int" THEN "TypeError"
    ELSE IF ~(0 <= channel.val /\ channel.val <= 17) THEN "ValueError"
    ELSE IF gamma_table.type # "list" \/ Len(ListOf(gamma_table.val)) # TableLen
         THEN "TypeError"
    ELSE "ok"

\* (mutant) the new table written into the list that every channel shares
StoreShared(table, channel, obj) ==
    [c \in Channels |-> IF table[c] = table[channel] THEN obj ELSE table[c]]

\* channel_gamma_table[channel] = gamma_table
StoreChannel(table, channel, obj) == [table EXCEPT ![channel] = obj]

channel_gamma(t, next, channel, gamma_table) ==
    LET call == Call("channel_gamma", <<channel, gamma_table>>, 0, <<>>, FALSE)
    IN  IF ChannelGammaCheck(channel, gamma_table) # "ok"
        THEN /\ Reject(t, call, ChannelGammaCheck(channel, gamma_table))
             /\ UNCHANGED gammaVars
        ELSE /\ channel_gamma_table' =
                    StoreChannel(channel_gamma_table, channel.val, gamma_table.val)
             /\ installed' = [installed EXCEPT ![channel.val] = gamma_table.val]
             /\ frame' = [frame EXCEPT ![t] = call]
             /\ Return(t)
             /\ pc' = [pc EXCEPT ![t] = next]
             /\ UNCHANGED <<default_gamma_table, GAMMA>>

\* (mutant) the length of values left unchecked
ValuesCheckTypeOnly(values) == values.type = "list"

\* isinstance(values, list) and len(values) == 18
ValuesCheck(values) == values.type = "list" /\ Len(values.val) = NumChannels

\* output(values), up to the list comprehension
output(t, next, values) ==
    IF ~ValuesCheck(values)
    THEN Reject(t, Call("output", <<values>>, CMD_SET_PWM_VALUES, <<>>, TRUE),
                "TypeError")
    ELSE Enter(t, next, Call("output", <<values>>, CMD_SET_PWM_VALUES, <<>>, TRUE),
               "lookup")

\* whether channel_gamma_table[i][v] is a lookup that succeeds
LookupOk(i, v) == InRange(ListOf(channel_gamma_table[i]), v)

\* [channel_gamma_table[i][values[i]] for i in range(18)], the next
\* LookupsPerStep values of i; the first lookup that fails raises, and after
\* the last one the list is handed to i2c_write
OutputLookup(t) ==
    /\ Alive(t)
    /\ at[t] = "lookup"
    /\ LET i == Len(frame[t].data)
           n == IF i + LookupsPerStep > NumChannels
                THEN NumChannels - i ELSE LookupsPerStep
           values == frame[t].args[1].val
       IN  IF \E j \in i..(i + n - 1) : ~LookupOk(j, values[j + 1])
           THEN Raise(t, "IndexError") /\ UNCHANGED frame
           ELSE /\ frame' = [frame EXCEPT ![t].data = @ \o
                        [k \in 1..n |->
                            GetItem(ListOf(channel_gamma_table[i + k - 1]),
                                    values[i + k])]]
                /\ at' = [at EXCEPT ![t] =
                        IF i + n = NumChannels THEN "write" ELSE "lookup"]
                /\ UNCHANGED <<result, pc>>
    /\ UNCHANGED <<bus, nwrites, gammaVars, DELAY, faderVars, ncalls, nkeys>>

output_raw(t, next, values) ==
    IF ~ValuesCheck(values)
    THEN Reject(t, Call("output_raw", <<values>>, CMD_SET_PWM_VALUES, <<>>, TRUE),
                "TypeError")
    ELSE Enter(t, next,
               Call("output_raw", <<values>>, CMD_SET_PWM_VALUES, values.val, TRUE),
               "write")

\* (mutant) a recalculation that keeps the channels channel_gamma has set
ReshareKeeping(table, new) ==
    [c \in Channels |-> IF table[c].kind = "caller" THEN table[c] ELSE new]

\* [default_gamma_table] * 18: eighteen references to the new default,
\* whatever the table held
Reshare(table, new) == [c \in Channels |-> new]

\* recalc_GAMMA() with GAMMA = g: the two assignments
recalc_GAMMA(g) ==
    /\ default_gamma_table' = Generated(g)
    /\ channel_gamma_table' = Reshare(channel_gamma_table, default_gamma_table')

\* ------------------------------------------------------------------------
\* State after import: lines 236-252 have run, the last of them
\* enable_leds(0b111111111111111111) with its update
\* ------------------------------------------------------------------------
AllLeds == 262143

ImportBus ==
    << BusWrite(CMD_ENABLE_LEDS, EncodeMask(AllLeds), "main", 1, TRUE),
       BusWrite(CMD_UPDATE, <<FullByte>>, "main", 2, TRUE) >>

Imported ==
    /\ bus = ImportBus
    /\ nwrites = Len(ImportBus)
    /\ at = [t \in Threads |-> "idle"]
    /\ frame = [t \in Threads |-> NoFrame]
    /\ result = [t \in Threads |-> "none"]
    /\ GAMMA = InitialGAMMA
    /\ default_gamma_table = Generated(InitialGAMMA)
    /\ channel_gamma_table = [c \in Channels |-> Generated(InitialGAMMA)]
    /\ DELAY = InitialDELAY
    /\ b = 0
    /\ sel = 1
    /\ installed = [c \in Channels |-> NoList]
    /\ ncalls = 0
    /\ nkeys = MaxKeys

\* ------------------------------------------------------------------------
\* A program that imports the library and calls it from one thread
\* ------------------------------------------------------------------------
\* enable masks: the ones of the source (red, all, ~0 and ~0b1010.. of the
\* on/off and odd/even tests, a rotated mask with bit 18 set), 0, bit 18
\* alone, and a string
ClientMasks ==
    { PyInt(131137), PyInt(AllLeds), PyInt(-1), PyInt(-174763), PyInt(264224),
      PyInt(0), PyInt(262144), PyStr("0b111111") }

ClientChannels ==
    { PyInt(-1), PyInt(0), PyInt(5), PyInt(17), PyInt(18), PyStr("5") }

ClientTables ==
    { PyList(Brought(1)), PyList(Brought(2)), PyList(Brought(3)),
      PyTuple(Brought(1)) }

\* the gradient of the test cycle at i = 0
Gradient == [k \in 1..NumChannels |-> ((k - 1) * (256 \div 18)) % 256]

ClientValues ==
    { PyList(Repeat(0, NumChannels)), PyList(Repeat(FullByte, NumChannels)),
      PyList(Gradient),
      PyList(Repeat(0, NumChannels - 1)),
      PyList(Repeat(0, NumChannels + 1)),
      PyTuple(Repeat(0, NumChannels)),
      PyList(Repeat(-1, NumChannels)),
      PyList([k \in 1..NumChannels |-> IF k = NumChannels THEN 256 ELSE 0]),
      PyList([k \in 1..NumChannels |-> IF k = 2 THEN -257 ELSE FullByte]) }

ClientIdle ==
    /\ pc["main"] = "client"
    /\ at["main"] = "idle"
    /\ ncalls < MaxCalls

Called == ncalls' = ncalls + 1

ClientEnable ==
    /\ ClientIdle /\ Called
    /\ enable("main", "client")
    /\ UNCHANGED <<bus, nwrites, gammaVars, DELAY, faderVars, nkeys>>

ClientDisable ==
    /\ ClientIdle /\ Called
    /\ disable("main", "client")
    /\ UNCHANGED <<bus, nwrites, gammaVars, DELAY, faderVars, nkeys>>

ClientReset ==
    /\ ClientIdle /\ Called
    /\ reset("main", "client")
    /\ UNCHANGED <<bus, nwrites, gammaVars, DELAY, faderVars, nkeys>>

ClientEnableLeds ==
    /\ ClientIdle /\ Called
    /\ \E m \in ClientMasks : enable_leds("main", "client", m)
    /\ UNCHANGED <<bus, nwrites, gammaVars, DELAY, faderVars, nkeys>>

ClientChannelGamma ==
    /\ ClientIdle /\ Called
    /\ \E c \in ClientChannels, g \in ClientTables : channel_gamma("main", "client", c, g)
    /\ UNCHANGED <<bus, nwrites, DELAY, faderVars, nkeys>>

ClientOutput ==
    /\ ClientIdle /\ Called
    /\ \E v \in ClientValues : output("main", "client", v)
    /\ UNCHANGED <<bus, nwrites, gammaVars, DELAY, faderVars, nkeys>>

ClientOutputRaw ==
    /\ ClientIdle /\ Called
    /\ \E v \in ClientValues : output_raw("main", "client", v)
    /\ UNCHANGED <<bus, nwrites, gammaVars, DELAY, faderVars, nkeys>>

\* GAMMA = g; recalc_GAMMA()
ClientRecalc ==
    /\ ClientIdle /\ Called
    /\ \E g \in ClientGammas \cup {GAMMA} :
        /\ GAMMA' = g
        /\ recalc_GAMMA(GAMMA')
    /\ frame' = [frame EXCEPT !["main"] = Call("recalc_GAMMA", <<>>, 0, <<>>, FALSE)]
    /\ Return("main")
    /\ UNCHANGED <<bus, nwrites, pc, installed, DELAY, faderVars, nkeys>>

Init == Imported /\ pc = [t \in Threads |-> IF t = "main" THEN "client" ELSE "unstarted"]

Next ==
    \/ ClientEnable
    \/ ClientDisable
    \/ ClientReset
    \/ ClientEnableLeds
    \/ ClientChannelGamma
    \/ ClientOutput
    \/ ClientOutputRaw
    \/ ClientRecalc
    \/ OutputLookup("main")
    \/ I2cWrite("main")
    \/ I2cUpdate("main")

Spec == Init /\ [][Next]_vars

\* ------------------------------------------------------------------------
\* The calibration utility: calibrate_gamma, fader, arrows
\* ------------------------------------------------------------------------
\* fader's quick-n-dirty colour selector: red, orange, yellow, green, blue,
\* white, arm, all
Colours == <<131137, 65666, 33028, 8232, 18448, 5632, 20495, AllLeds>>

Running(t, label) == pc[t] = label /\ at[t] = "idle"
Goto(t, label) == pc' = [pc EXCEPT ![t] = label]

\* f = threading.Thread(target=fader); f.daemon = True; f.start()
MainStartFader ==
    /\ Running("main", "start_fader")
    /\ pc' = [pc EXCEPT !["main"] = "start_arrows", !["fader"] = "enable"]
    /\ UNCHANGED <<bus, nwrites, at, frame, result, gammaVars, DELAY, faderVars, ncalls, nkeys>>

\* k = threading.Thread(target=arrows, args=(window,)); k.start()
MainStartArrows ==
    /\ Running("main", "start_arrows")
    /\ pc' = [pc EXCEPT !["main"] = "join", !["arrows"] = "getkey"]
    /\ UNCHANGED <<bus, nwrites, at, frame, result, gammaVars, DELAY, faderVars, ncalls, nkeys>>

\* k.join()
MainJoin ==
    /\ Running("main", "join")
    /\ pc["arrows"] \in {"done", "dead"}
    /\ Goto("main", "reset")
    /\ UNCHANGED <<bus, nwrites, at, frame, result, gammaVars, DELAY, faderVars, ncalls, nkeys>>

\* reset()
MainReset ==
    /\ Running("main", "reset")
    /\ reset("main", "disable")
    /\ UNCHANGED <<bus, nwrites, gammaVars, DELAY, faderVars, ncalls, nkeys>>

\* disable()
MainDisable ==
    /\ Running("main", "disable")
    /\ disable("main", "exit")
    /\ UNCHANGED <<bus, nwrites, gammaVars, DELAY, faderVars, ncalls, nkeys>>

\* calibrate_gamma returns (or an exception leaves it) and sys.exit() ends
\* the interpreter: the daemon thread is not waited for
MainExit ==
    /\ pc["main"] \in {"exit", "dead"}
    /\ at["main"] = "idle"
    /\ pc' = [pc EXCEPT !["main"] = "exited",
                        !["fader"] = IF @ = "dead" THEN @ ELSE "killed"]
    /\ UNCHANGED <<bus, nwrites, at, frame, result, gammaVars, DELAY, faderVars, ncalls, nkeys>>

\* ---- fader ----
\* enable()
FaderEnable ==
    /\ Running("fader", "enable")
    /\ enable("fader", "select")
    /\ UNCHANGED <<bus, nwrites, gammaVars, DELAY, faderVars, ncalls, nkeys>>

\* enable_leds(...), eight times
FaderSelect ==
    /\ Running("fader", "select")
    /\ enable_leds("fader", IF sel = Len(Colours) THEN "up_output" ELSE "select",
                   PyInt(Colours[sel]))
    /\ sel' = IF sel = Len(Colours) THEN sel ELSE sel + 1
    /\ UNCHANGED <<bus, nwrites, gammaVars, DELAY, b, ncalls, nkeys>>

\* sleep(DELAY): a negative argument raises ValueError
Sleep(t, next) ==
    /\ IF DELAY < 0
       THEN Raise(t, "ValueError")
       ELSE Goto(t, next) /\ UNCHANGED <<at, result>>
    /\ UNCHANGED frame

\* output([b] * 18), first inner loop
FaderUpOutput ==
    /\ Running("fader", "up_output")
    /\ output("fader", "up_delay", PyList(Repeat(b, NumChannels)))
    /\ UNCHANGED <<bus, nwrites, gammaVars, DELAY, faderVars, ncalls, nkeys>>

\* (mutant) b += 2
UpCountTwo == IF b = FullByte THEN b ELSE b + 2

\* if b == 255: break, else: b += 1
UpStep == IF b = FullByte THEN "blip" ELSE "up_output"
UpCount == IF b = FullByte THEN b ELSE b + 1

\* if DELAY > 0:
FaderUpDelay ==
    /\ Running("fader", "up_delay")
    /\ IF DELAY > 0
       THEN Goto("fader", "up_sleep") /\ UNCHANGED b
       ELSE Goto("fader", UpStep) /\ b' = UpCount
    /\ UNCHANGED <<bus, nwrites, at, frame, result, gammaVars, DELAY, sel, ncalls, nkeys>>

\* sleep(DELAY), then the test of b
FaderUpSleep ==
    /\ Running("fader", "up_sleep")
    /\ Sleep("fader", UpStep)
    /\ b' = IF DELAY < 0 THEN b ELSE UpCount
    /\ UNCHANGED <<bus, nwrites, gammaVars, DELAY, sel, ncalls, nkeys>>

\* if DELAY > 0: the "blip" at mid-point
FaderBlip ==
    /\ Running("fader", "blip")
    /\ Goto("fader", IF DELAY > 0 THEN "blip_disable" ELSE "down_output")
    /\ UNCHANGED <<bus, nwrites, at, frame, result, gammaVars, DELAY, faderVars, ncalls, nkeys>>

\* disable()
FaderBlipDisable ==
    /\ Running("fader", "blip_disable")
    /\ disable("fader", "blip_sleep")
    /\ UNCHANGED <<bus, nwrites, gammaVars, DELAY, faderVars, ncalls, nkeys>>

\* sleep(DELAY)
FaderBlipSleep ==
    /\ Running("fader", "blip_sleep")
    /\ Sleep("fader", "blip_enable")
    /\ UNCHANGED <<bus, nwrites, gammaVars, DELAY, faderVars, ncalls, nkeys>>

\* enable()
FaderBlipEnable ==
    /\ Running("fader", "blip_enable")
    /\ enable("fader", "down_output")
    /\ UNCHANGED <<bus, nwrites, gammaVars, DELAY, faderVars, ncalls, nkeys>>

\* output([b] * 18), second inner loop
FaderDownOutput ==
    /\ Running("fader", "down_output")
    /\ output("fader", "down_delay", PyList(Repeat(b, NumChannels)))
    /\ UNCHANGED <<bus, nwrites, gammaVars, DELAY, faderVars, ncalls, nkeys>>

\* if b == 0: break (and the outer loop starts over), else: b -= 1
DownStep == IF b = 0 THEN "up_output" ELSE "down_output"
DownCount == IF b = 0 THEN b ELSE b - 1

FaderDownDelay ==
    /\ Running("fader", "down_delay")
    /\ IF DELAY > 0
       THEN Goto("fader", "down_sleep") /\ UNCHANGED b
       ELSE Goto("fader", DownStep) /\ b' = DownCount
    /\ UNCHANGED <<bus, nwrites, at, frame, result, gammaVars, DELAY, sel, ncalls, nkeys>>

FaderDownSleep ==
    /\ Running("fader", "down_sleep")
    /\ Sleep("fader", DownStep)
    /\ b' = IF DELAY < 0 THEN b ELSE DownCount
    /\ UNCHANGED <<bus, nwrites, gammaVars, DELAY, sel, ncalls, nkeys>>

\* ---- arrows ----
\* key = window.getkey() and the branch taken; nkeys is the number of
\* cursor keys still to come
CursorKey ==
    /\ Running("arrows", "getkey")
    /\ nkeys > 0
    /\ nkeys' = nkeys - 1
    /\ UNCHANGED <<bus, nwrites, pc, at, frame, result, faderVars, ncalls>>

\* DELAY += 0.001
KeyRight == CursorKey /\ DELAY' = DELAY + 1 /\ UNCHANGED gammaVars

\* DELAY -= 0.001
KeyLeft == CursorKey /\ DELAY' = DELAY - 1 /\ UNCHANGED gammaVars

\* GAMMA += 0.1; recalc_GAMMA()
KeyUp ==
    /\ CursorKey
    /\ GAMMA' = GAMMA + 1
    /\ recalc_GAMMA(GAMMA')
    /\ UNCHANGED <<DELAY, installed>>

\* GAMMA -= 0.1; recalc_GAMMA()
KeyDown ==
    /\ CursorKey
    /\ GAMMA' = GAMMA - 1
    /\ recalc_GAMMA(GAMMA')
    /\ UNCHANGED <<DELAY, installed>>

\* any other key: break
KeyQuit ==
    /\ Running("arrows", "getkey")
    /\ Goto("arrows", "done")
    /\ UNCHANGED <<bus, nwrites, at, frame, result, gammaVars, DELAY, faderVars, ncalls, nkeys>>

InitCalib ==
    /\ Imported
    /\ pc = [t \in Threads |-> IF t = "main" THEN "start_fader" ELSE "unstarted"]

NextCalib ==
    \/ MainStartFader
    \/ MainStartArrows
    \/ MainJoin
    \/ MainReset
    \/ MainDisable
    \/ MainExit
    \/ FaderEnable
    \/ FaderSelect
    \/ FaderUpOutput
    \/ FaderUpDelay
    \/ FaderUpSleep
    \/ FaderBlip
    \/ FaderBlipDisable
    \/ FaderBlipSleep
    \/ FaderBlipEnable
    \/ FaderDownOutput
    \/ FaderDownDelay
    \/ FaderDownSleep
    \/ KeyRight
    \/ KeyLeft
    \/ KeyUp
    \/ KeyDown
    \/ KeyQuit
    \/ \E t \in Threads : OutputLookup(t)
    \/ \E t \in Threads : I2cWrite(t)
    \/ \E t \in Threads : I2cUpdate(t)

SpecCalib == InitCalib /\ [][NextCalib]_vars

\* ------------------------------------------------------------------------
\* A program that imports the library, possibly sets the exponent and one
\* channel's table, and then runs the cycle
\*     enable(); output([255] * 18); disable(); reset(); enable()
\* ------------------------------------------------------------------------
\* the channels such a program overrides
CycleChannels == {0, 5, 17}
InitCycle ==
    /\ bus = ImportBus
    /\ nwrites = Len(ImportBus)
    /\ pc = [t \in Threads |-> IF t = "main" THEN "cycle_enable" ELSE "unstarted"]
    /\ at = [t \in Threads |-> "idle"]
    /\ frame = [t \in Threads |-> NoFrame]
    /\ result = [t \in Threads |-> "none"]
    /\ GAMMA \in GammaRange
    /\ default_gamma_table = Generated(GAMMA)
    /\ channel_gamma_table \in
            { [c \in Channels |-> Generated(GAMMA)] } \cup
            { [c \in Channels |-> IF c = d THEN Brought(n) ELSE Generated(GAMMA)] :
                d \in CycleChannels, n \in {1, 2} }
    /\ installed = [c \in Channels |->
            IF channel_gamma_table[c].kind = "caller" THEN channel_gamma_table[c]
            ELSE NoList]
    /\ DELAY = InitialDELAY
    /\ b = 0
    /\ sel = 1
    /\ ncalls = 0
    /\ nkeys = 0

CycleEnable ==
    /\ Running("main", "cycle_enable")
    /\ enable("main", "cycle_output")
    /\ UNCHANGED <<bus, nwrites, gammaVars, DELAY, faderVars, ncalls, nkeys>>

CycleOutput ==
    /\ Running("main", "cycle_output")
    /\ output("main", "cycle_disable", PyList(Repeat(FullByte, NumChannels)))
    /\ UNCHANGED <<bus, nwrites, gammaVars, DELAY, faderVars, ncalls, nkeys>>

CycleDisable ==
    /\ Running("main", "cycle_disable")
    /\ disable("main", "cycle_reset")
    /\ UNCHANGED <<bus, nwrites, gammaVars, DELAY, faderVars, ncalls, nkeys>>

CycleReset ==
    /\ Running("main", "cycle_reset")
    /\ reset("main", "cycle_enable_again")
    /\ UNCHANGED <<bus, nwrites, gammaVars, DELAY, faderVars, ncalls, nkeys>>

CycleEnableAgain ==
    /\ Running("main", "cycle_enable_again")
    /\ enable("main", "cycle_done")
    /\ UNCHANGED <<bus, nwrites, gammaVars, DELAY, faderVars, ncalls, nkeys>>

NextCycle ==
    \/ CycleEnable
    \/ CycleOutput
    \/ CycleDisable
    \/ CycleReset
    \/ CycleEnableAgain
    \/ OutputLookup("main")
    \/ I2cWrite("main")
    \/ I2cUpdate("main")

SpecCycle == InitCycle /\ [][NextCycle]_vars

\* ------------------------------------------------------------------------
\* The calibration utility with a user who works on DELAY only: KEY_LEFT
\* has been pressed until DELAY is at most DelayLeft thousandths, before
\* the fader thread got to run, and MaxDelayKeys presses of KEY_LEFT or
\* KEY_RIGHT follow
\* ------------------------------------------------------------------------
InitDelay ==
    /\ bus = ImportBus
    /\ nwrites = Len(ImportBus)
    /\ pc = [t \in Threads |->
                IF t = "main" THEN "join" ELSE IF t = "fader" THEN "enable" ELSE "getkey"]
    /\ at = [t \in Threads |-> "idle"]
    /\ frame = [t \in Threads |-> NoFrame]
    /\ result = [t \in Threads |-> "none"]
    /\ GAMMA = InitialGAMMA
    /\ default_gamma_table = Generated(InitialGAMMA)
    /\ channel_gamma_table = [c \in Channels |-> Generated(InitialGAMMA)]
    /\ DELAY \in 1..DelayLeft
    /\ b = 0
    /\ sel = 1
    /\ installed = [c \in Channels |-> NoList]
    /\ ncalls = 0
    /\ nkeys = MaxDelayKeys

NextDelay ==
    \/ MainJoin
    \/ MainReset
    \/ MainDisable
    \/ MainExit
    \/ FaderEnable
    \/ FaderSelect
    \/ FaderUpOutput
    \/ FaderUpDelay
    \/ FaderUpSleep
    \/ FaderBlip
    \/ FaderBlipDisable
    \/ FaderBlipSleep
    \/ FaderBlipEnable
    \/ FaderDownOutput
    \/ FaderDownDelay
    \/ FaderDownSleep
    \/ KeyRight
    \/ KeyLeft
    \/ KeyQuit
    \/ \E t \in Threads : OutputLookup(t)
    \/ \E t \in Threads : I2cWrite(t)
    \/ \E t \in Threads : I2cUpdate(t)

SpecDelay == InitDelay /\ [][NextDelay]_vars

\* ------------------------------------------------------------------------
\* Properties
\* ------------------------------------------------------------------------
ValueChanging(w) == w.cmd \in {CMD_ENABLE_LEDS, CMD_SET_PWM_VALUES}
IsUpdate(w) == w.cmd = CMD_UPDATE /\ w.data = <<FullByte>> /\ w.addr = I2C_ADDRESS
LastWrite == bus[Len(bus)]
InCall(t, op) == frame[t].op = op /\ at[t] # "idle"
Finished(t, op) == frame[t].op = op /\ at[t] = "idle"

\* C1: every accepted write of command 0x13 or 0x01 is immediately followed
\* on the bus by one update write (0x16, [0xFF]) of the same call and by no
\* second one; the only accepted value-changing write with nothing after it
\* is that of a call standing at its update write; and an update write
\* follows nothing but an accepted value-changing write.
C1_WriteThenUpdate ==
    /\ \A i \in 1..Len(bus) :
        (ValueChanging(bus[i]) /\ bus[i].ok) =>
            IF i < Len(bus)
            THEN /\ IsUpdate(bus[i + 1])
                 /\ bus[i + 1].by = bus[i].by
                 /\ bus[i].nth = 1 /\ bus[i + 1].nth = 2
                 /\ (i + 1 < Len(bus) => ~IsUpdate(bus[i + 2]))
            ELSE at[bus[i].by] = "update"
    /\ \A j \in 2..Len(bus) :
        bus[j].cmd = CMD_UPDATE => (ValueChanging(bus[j - 1]) /\ bus[j - 1].ok)
    /\ \A t \in Threads :
        at[t] = "update" => (ValueChanging(LastWrite) /\ LastWrite.ok /\ LastWrite.by = t)

\* C1 witness: a client's output has put its PWM write and its update on the bus
C1_Witness ==
    /\ Finished("main", "output") /\ result["main"] = "ok"
    /\ Len(bus) >= 2
    /\ bus[Len(bus) - 1].cmd = CMD_SET_PWM_VALUES /\ bus[Len(bus) - 1].ok
    /\ IsUpdate(LastWrite) /\ LastWrite.ok

AllAccepted == \A i \in 1..Len(bus) : bus[i].ok

\* C2 (as claimed): in calibration mode, while the transport accepts every
\* write, the write that follows a value-changing write on the bus is the
\* update write of the same thread's call: no write of another thread comes
\* between the two
C2_AtomicPair ==
    AllAccepted =>
        \A i \in 1..(Len(bus) - 1) :
            ValueChanging(bus[i]) =>
                (IsUpdate(bus[i + 1]) /\ bus[i + 1].by = bus[i].by)

\* C3 (as claimed): once calibrate_gamma has returned from disable(), the
\* last writes on the bus are main's reset and main's disable: the fader has
\* written nothing after them or between them
C3_ShutdownIsLast ==
    (pc["main"] \in {"exit", "exited"} /\ Finished("main", "disable")
        /\ result["main"] = "ok" /\ AllAccepted) =>
        /\ Len(bus) >= 2
        /\ LastWrite = BusWrite(CMD_ENABLE_OUTPUT, <<0>>, "main", 1, TRUE)
        /\ bus[Len(bus) - 1] = BusWrite(CMD_RESET, <<FullByte>>, "main", 1, TRUE)

\* C4: for every integer mask m, enable_leds(m) writes command 0x13 with
\* three bytes m mod 64, floor(m / 64) mod 64, floor(m / 4096) mod 64 (the
\* values of m & 0x3F, (m >> 6) & 0x3F, (m >> 12) & 0x3F for Python's
\* integers), each in 0..63, which put together are m & 0x3FFFF; no integer
\* is rejected.
C4_MaskEncoding ==
    \A t \in Threads :
        (frame[t].op = "enable_leds" /\ frame[t].args[1].type = "int") =>
            LET m == frame[t].args[1].val
                d == frame[t].data
            IN  /\ frame[t].cmd = CMD_ENABLE_LEDS
                /\ Len(d) = 3
                /\ \A k \in 1..3 : d[k] \in 0..63
                /\ d = << m % 64, (m \div 64) % 64, (m \div 4096) % 64 >>
                /\ BitOr(d[1], BitOr(d[2] * 64, d[3] * 4096)) = m % 262144
                /\ BitOr(d[1], BitOr(d[2] * 64, d[3] * 4096)) = BitAnd(m, 262143)
                /\ (at[t] = "idle" => result[t] \in {"ok", "IOError"})
                /\ (at[t] = "update" =>
                        LastWrite = BusWrite(CMD_ENABLE_LEDS, d, t, 1, TRUE))

\* C4 witness: the write of a negative mask and of a mask wider than 18 bits
C4_Witness ==
    /\ InCall("main", "enable_leds") /\ at["main"] = "update"
    /\ frame["main"].args[1].val \in {-174763, 264224}
    /\ LastWrite.cmd = CMD_ENABLE_LEDS

\* C5 (as claimed): enable_leds(0b100000_000001_000001) writes 0x21, 0x01, 0x21
C5_RedAsClaimed ==
    (frame["main"].op = "enable_leds" /\ frame["main"].args[1] = PyInt(131137)) =>
        frame["main"].data = <<33, 1, 33>>

\* C5 (amended): enable_leds(0b100000_000001_000001) writes the
\* enable-channels command with byte0 = 0x01 (bit 0), byte1 = 0x01 (bit 0),
\* byte2 = 0x20 (bit 5)
C5_Red ==
    (frame["main"].op = "enable_leds" /\ frame["main"].args[1] = PyInt(131137)) =>
        /\ frame["main"].data = <<1, 1, 32>>
        /\ (at["main"] = "update" =>
                LastWrite = BusWrite(CMD_ENABLE_LEDS, <<1, 1, 32>>, "main", 1, TRUE))

C5_Witness ==
    /\ frame["main"].op = "enable_leds" /\ frame["main"].args[1] = PyInt(131137)
    /\ at["main"] = "update"
    /\ LastWrite.data = <<1, 1, 32>>

\* the client's step into a call of one of the functions ops
ClientCalls(ops) == ncalls' = ncalls + 1 /\ frame'["main"].op \in ops

\* C6: output(values) and output_raw(values) with a list of a length other
\* than 18 end at once with TypeError: the call writes nothing on the bus and
\* leaves the gamma tables as they were.
C6_WrongLengthRejected ==
    [][ ( /\ ClientCalls({"output", "output_raw"})
          /\ frame'["main"].args[1].type = "list"
          /\ Len(frame'["main"].args[1].val) # 18 )
        => ( /\ result'["main"] = "TypeError"
             /\ at'["main"] = "idle"
             /\ bus' = bus
             /\ channel_gamma_table' = channel_gamma_table
             /\ default_gamma_table' = default_gamma_table ) ]_vars

\* C6 witness: output with 17 values has been rejected, nothing written
C6_Witness ==
    /\ Finished("main", "output")
    /\ frame["main"].args[1] = PyList(Repeat(0, 17))
    /\ result["main"] = "TypeError"
    /\ ncalls = 1 /\ bus = ImportBus

\* C7 (as claimed): output(values) with 18 integers, one of them outside
\* 0..255, never gets to a bus write and ends with an error
C7_OutOfRangeRejected ==
    \A t \in Threads :
        ( /\ frame[t].op = "output"
          /\ frame[t].args[1].type = "list"
          /\ Len(frame[t].args[1].val) = 18
          /\ \E k \in 1..18 : frame[t].args[1].val[k] \notin 0..255 )
        => ( /\ at[t] \in {"lookup", "idle"}
             /\ (at[t] = "idle" => result[t] \in {"IndexError", "TypeError", "ValueError"}) )

\* C8 (as claimed): after recalc_GAMMA a channel that channel_gamma has set
\* still holds the list it was given, and every other channel holds the
\* newly generated table
C8_OverrideKept ==
    Finished("main", "recalc_GAMMA") =>
        \A c \in Channels :
            channel_gamma_table[c] =
                IF installed[c] # NoList THEN installed[c]
                ELSE [kind |-> "gamma", n |-> GAMMA]

\* C8 (amended): after channel_gamma(c, curve), regenerating the shared
\* default with a new exponent replaces channel c's curve as well: channel c
\* no longer holds the override but, like every channel never overridden,
\* the newly generated curve.
C8_OverrideDiscarded ==
    Finished("main", "recalc_GAMMA") =>
        /\ \A c \in Channels :
            installed[c] # NoList =>
                /\ channel_gamma_table[c] # installed[c]
                /\ ListOf(channel_gamma_table[c]) = GammaTables[GAMMA]
        /\ \A c \in Channels :
            installed[c] = NoList =>
                ListOf(channel_gamma_table[c]) = GammaTables[GAMMA]

\* C8 witness: channel 5 was overridden, then the default regenerated with
\* another exponent
C8_Witness ==
    /\ Finished("main", "recalc_GAMMA")
    /\ installed[5] = Brought(1)
    /\ GAMMA # InitialGAMMA
    /\ channel_gamma_table[5] = [kind |-> "gamma", n |-> GAMMA]

\* C9: after recalc_GAMMA the default table is the one generated from the
\* current exponent and all 18 channels refer to it, whatever channel_gamma
\* stored before.
C9_ResetToShared ==
    Finished("main", "recalc_GAMMA") =>
        /\ default_gamma_table = [kind |-> "gamma", n |-> GAMMA]
        /\ \A c \in Channels : channel_gamma_table[c] = default_gamma_table
        /\ Cardinality({channel_gamma_table[c] : c \in Channels}) = 1

\* C9 witness: a recalculation with a changed exponent after channel_gamma
\* had stored a list
C9_Witness ==
    /\ Finished("main", "recalc_GAMMA")
    /\ \E c \in Channels : installed[c] # NoList
    /\ default_gamma_table # [kind |-> "gamma", n |-> InitialGAMMA]

\* C10: channel_gamma(c, curve) with an integer c in 0..17 and a list of 256
\* entries makes channel c refer to curve and leaves the other 17 channels
\* and the default table as they were; with any other arguments the call
\* raises and no channel changes.
C10_OnlyThatChannel ==
    [][ ClientCalls({"channel_gamma"}) =>
            LET c == frame'["main"].args[1]
                g == frame'["main"].args[2]
            IN  IF /\ c.type = "int" /\ c.val >= 0 /\ c.val <= 17
                   /\ g.type = "list" /\ Len(ListOf(g.val)) = 256
                THEN /\ result'["main"] = "ok"
                     /\ channel_gamma_table'[c.val] = g.val
                     /\ \A d \in Channels \ {c.val} :
                            channel_gamma_table'[d] = channel_gamma_table[d]
                     /\ default_gamma_table' = default_gamma_table
                ELSE /\ result'["main"] \in {"TypeError", "ValueError"}
                     /\ channel_gamma_table' = channel_gamma_table
                     /\ default_gamma_table' = default_gamma_table
      ]_vars

\* C10 witness: channel 5 holds the caller's list while the other 17
\* channels still share the default table
C10_Witness ==
    /\ Finished("main", "channel_gamma") /\ result["main"] = "ok"
    /\ channel_gamma_table[5] = Brought(1)
    /\ \A d \in Channels \ {5} : channel_gamma_table[d] = default_gamma_table

\* a step in which thread t puts the first / the second write of its call on
\* the bus; the write is then the last one of bus'
FirstWriteStep(t) == at[t] = "write" /\ at'[t] # "write"
UpdateStep(t) == at[t] = "update" /\ at'[t] # "update"
WrittenNow == bus'[Len(bus')]

\* C11: the output-enable register (command 0x00) is written by enable()
\* and disable() only.  After import nothing has written it (the driver
\* starts Disabled); enable() writes [0x01] to it and disable() [0x00];
\* no write of reset(), enable_leds, output or output_raw, and no update
\* write, carries command 0x00, so the enabled/disabled state the driver
\* has set changes in no other call.
C11_EnableOnlyByEnableDisable ==
    /\ \A i \in 1..Len(bus) : bus[i].cmd # CMD_ENABLE_OUTPUT
    /\ [][ /\ \A t \in Threads :
                /\ FirstWriteStep(t) =>
                    /\ (frame[t].op = "enable" =>
                            WrittenNow.cmd = CMD_ENABLE_OUTPUT /\ WrittenNow.data = <<1>>)
                    /\ (frame[t].op = "disable" =>
                            WrittenNow.cmd = CMD_ENABLE_OUTPUT /\ WrittenNow.data = <<0>>)
                    /\ (frame[t].op \in {"reset", "enable_leds", "output", "output_raw"}
                            => WrittenNow.cmd # CMD_ENABLE_OUTPUT)
                    /\ frame[t].op \in {"enable", "disable", "reset", "enable_leds",
                                         "output", "output_raw"}
                /\ UpdateStep(t) => WrittenNow.cmd # CMD_ENABLE_OUTPUT
            /\ (bus' # bus => \E u \in Threads : FirstWriteStep(u) \/ UpdateStep(u))
       ]_vars

\* C11 witness: enable() has set the register, and a reset() after it has
\* written its one command and returned
C11_Witness ==
    /\ Finished("main", "reset") /\ result["main"] = "ok"
    /\ Len(bus) >= 2
    /\ bus[Len(bus) - 1] = BusWrite(CMD_ENABLE_OUTPUT, <<1>>, "main", 1, TRUE)
    /\ LastWrite = BusWrite(CMD_RESET, <<FullByte>>, "main", 1, TRUE)

\* the bus writes since import
CycleWrites == nwrites - Len(ImportBus)
CycleDone == Running("main", "cycle_done") /\ result["main"] = "ok"

PlainWrite(op) ==
    IF op = "enable" THEN <<CMD_ENABLE_OUTPUT, <<1>>>>
    ELSE IF op = "disable" THEN <<CMD_ENABLE_OUTPUT, <<0>>>>
    ELSE <<CMD_RESET, <<FullByte>>>>

\* C13: enable(), disable() and reset() each put exactly one write on the
\* bus, enable() command 0x00 with [0x01], disable() command 0x00 with
\* [0x00], reset() command 0x17 with [0xFF]; the call ends with that write
\* (returning, or raising if the transport fails) and never gets to an
\* update write.
C13_OneWriteNoLatch ==
    /\ [](\A t \in Threads :
            frame[t].op \in {"enable", "disable", "reset"} =>
                /\ at[t] \in {"write", "idle"}
                /\ <<frame[t].cmd, frame[t].data>> = PlainWrite(frame[t].op)
                /\ (at[t] = "idle" =>
                        /\ result[t] \in {"ok", "IOError"}
                        /\ \E i \in 1..Len(bus) :
                            /\ bus[i].by = t /\ bus[i].nth = 1
                            /\ <<bus[i].cmd, bus[i].data>> = PlainWrite(frame[t].op)
                            /\ bus[i].ok = (result[t] = "ok")
                            /\ \A j \in (i + 1)..Len(bus) : bus[j].by # t))
    /\ [][\A t \in Threads :
            (frame[t].op \in {"enable", "disable", "reset"} /\ FirstWriteStep(t)) =>
                /\ at'[t] = "idle"
                /\ nwrites' = nwrites + 1
                /\ WrittenNow =
                        BusWrite(PlainWrite(frame[t].op)[1], PlainWrite(frame[t].op)[2],
                                 t, 1, result'[t] = "ok")
                /\ result'[t] \in {"ok", "IOError"}
       ]_vars

\* C13 witness: disable() and then reset() have each written their one
\* command, and the bus holds nothing else since import
C13_Witness ==
    /\ Finished("main", "reset") /\ result["main"] = "ok"
    /\ nwrites = Len(ImportBus) + 2
    /\ bus = << ImportBus[2],
                BusWrite(CMD_ENABLE_OUTPUT, <<0>>, "main", 1, TRUE),
                BusWrite(CMD_RESET, <<FullByte>>, "main", 1, TRUE) >>

Latched == {"enable_leds", "output", "output_raw"}

\* C14: a write the transport refuses ends the call at once with the error
\* and is not issued again.  If the command write of enable_leds, output or
\* output_raw fails, the call is over with IOError, the update write is
\* never attempted, and the failed write is the call's only one; if the
\* command write is accepted and the update write fails, the call is over
\* with IOError and its writes are those two, each issued once.
C14_NoRetry ==
    /\ [](\A t \in Threads :
            (frame[t].op \in Latched /\ at[t] = "idle" /\ result[t] = "IOError") =>
                /\ LastWrite.by = t /\ ~LastWrite.ok
                /\ IF LastWrite.nth = 1
                   THEN /\ LastWrite.cmd = frame[t].cmd
                        /\ LastWrite.data = frame[t].data
                   ELSE /\ IsUpdate(LastWrite)
                        /\ Len(bus) >= 2
                        /\ bus[Len(bus) - 1] =
                                BusWrite(frame[t].cmd, frame[t].data, t, 1, TRUE))
    /\ [][\A t \in Threads :
            /\ (frame[t].op \in Latched /\ FirstWriteStep(t)) =>
                    /\ nwrites' = nwrites + 1
                    /\ WrittenNow.nth = 1
                    /\ IF WrittenNow.ok
                       THEN at'[t] = "update" /\ result'[t] = "none"
                       ELSE at'[t] = "idle" /\ result'[t] = "IOError"
            /\ UpdateStep(t) =>
                    /\ nwrites' = nwrites + 1
                    /\ WrittenNow.nth = 2
                    /\ at'[t] = "idle"
                    /\ result'[t] = IF WrittenNow.ok THEN "ok" ELSE "IOError"
            /\ (at[t] \in {"write", "update"} /\ at'[t] = at[t]) =>
                    (bus' = bus /\ nwrites' = nwrites)
       ]_vars

\* C14 witness: enable_leds failed at its command write, and the output
\* after it at its update write
C14_Witness ==
    /\ Finished("main", "output") /\ result["main"] = "IOError"
    /\ nwrites = Len(ImportBus) + 3
    /\ bus[1].cmd = CMD_ENABLE_LEDS /\ ~bus[1].ok /\ bus[1].nth = 1
    /\ bus[2].cmd = CMD_SET_PWM_VALUES /\ bus[2].ok
    /\ IsUpdate(bus[3]) /\ ~bus[3].ok

\* a list of 18 brightness values, each in 0..255
ValidValues(values) ==
    /\ values.type = "list"
    /\ Len(values.val) = NumChannels
    /\ \A k \in 1..NumChannels : values.val[k] \in 0..FullByte

\* the entry of channel c's current table at brightness v, 0 <= v <= 255
Corrected(c, v) == ListOf(channel_gamma_table[c])[v + 1]

\* C15: for a list of 18 values in 0..255, output hands i2c_write command
\* 0x01 and 18 bytes, byte i being the entry at values[i] of the table
\* channel i refers to, and that is what is written (all zeros for
\* output([0]*18) under the default table of exponent 1.4); output_raw
\* writes command 0x01 with the 18 values themselves, in the same order.
C15_OutputPayload ==
    LET f == frame["main"]
        values == f.args[1].val
    IN  /\ (f.op = "output" /\ ValidValues(f.args[1])) =>
            /\ f.cmd = CMD_SET_PWM_VALUES
            /\ at["main"] \in {"lookup", "write", "update", "idle"}
            /\ (at["main"] \in {"lookup", "write", "update"} =>
                    /\ Len(f.data) <= NumChannels
                    /\ \A k \in 1..Len(f.data) : f.data[k] = Corrected(k - 1, values[k]))
            /\ (at["main"] \in {"write", "update"} =>
                    /\ Len(f.data) = NumChannels
                    /\ ( ( /\ values = Repeat(0, NumChannels)
                            /\ \A c \in Channels :
                                channel_gamma_table[c] = Generated(InitialGAMMA) )
                          => f.data = Repeat(0, NumChannels) ))
            /\ (at["main"] = "update" =>
                    LastWrite = BusWrite(CMD_SET_PWM_VALUES, f.data, "main", 1, TRUE))
            /\ (at["main"] = "idle" =>
                    /\ result["main"] \in {"ok", "IOError"}
                    /\ Len(f.data) = NumChannels
                    /\ \E i \in 1..Len(bus) :
                            /\ bus[i].cmd = CMD_SET_PWM_VALUES
                            /\ bus[i].data = f.data)
        /\ (f.op = "output_raw" /\ ValidValues(f.args[1])) =>
            /\ f.cmd = CMD_SET_PWM_VALUES
            /\ f.data = values
            /\ at["main"] \in {"write", "update", "idle"}
            /\ (at["main"] = "update" =>
                    LastWrite = BusWrite(CMD_SET_PWM_VALUES, values, "main", 1, TRUE))
            /\ (at["main"] = "idle" => result["main"] \in {"ok", "IOError"})

\* C15 witness: the gradient written while channel 5 refers to the caller's
\* inverted ramp: byte 5 is 255 - 70, the others come from the default table
C15_Witness ==
    /\ InCall("main", "output") /\ at["main"] = "update"
    /\ frame["main"].args[1] = PyList(Gradient)
    /\ channel_gamma_table[5] = Brought(1)
    /\ LastWrite.cmd = CMD_SET_PWM_VALUES
    /\ LastWrite.data[6] = 185
    /\ LastWrite.data[18] = GammaTables[InitialGAMMA][239]

\* round(i^e / 255^(e - 1)) for the integer exponents e = 1 and e = 2, to
\* the nearest integer (2 * i * i is even and 255 odd: no ties)
RoundedPower(e, i) ==
    IF e = 1 THEN i ELSE (2 * i * i + FullByte) \div (2 * FullByte)

\* C16 (as claimed): when the exponent is 1.0 or 2.0, every entry i of the
\* generated default table is 255 * (i / 255)^e rounded to the nearest
\* integer, round(i^e / 255^(e - 1))
C16_RoundedPowerLaw ==
    (GAMMA \in {10, 20} /\ default_gamma_table = Generated(GAMMA)) =>
        \A i \in 0..(TableLen - 1) :
            ListOf(default_gamma_table)[i + 1] = RoundedPower(GAMMA \div 10, i)

\* C17 (as claimed): in calibration mode every complete frame of the
\* fader's output() comes from one version of the gamma table: there is a
\* generated table from which every one of its 18 bytes was looked up
C17_SingleTableVersion ==
    (frame["fader"].op = "output" /\ at["fader"] \in {"write", "update"}) =>
        \E g \in GammaRange :
            \A k \in 1..NumChannels :
                frame["fader"].data[k] =
                    GetItem(GammaTables[g], frame["fader"].args[1].val[k])

\* C18 (as claimed): in calibration mode the fader calls sleep(DELAY) only
\* with DELAY > 0, and never dies of the ValueError of sleep() after the
\* blip's disable()
C18_SleepsPositive ==
    /\ (pc["fader"] \in {"up_sleep", "blip_sleep", "down_sleep"} /\ at["fader"] = "idle")
            => DELAY > 0
    /\ ~( /\ pc["fader"] = "dead" /\ result["fader"] = "ValueError"
          /\ frame["fader"].op = "disable" )

\* the abort alone: the fader never dies between the blip's disable() and
\* the enable() after it
C18_BlipCompletes ==
    ~( /\ pc["fader"] = "dead" /\ result["fader"] = "ValueError"
       /\ frame["fader"].op = "disable" )

\* the fader's step into a call of op
FaderCalls(op) ==
    /\ at["fader"] = "idle" /\ at'["fader"] # "idle"
    /\ frame'["fader"].op = op
\* the brightness of the frame the fader last passed to output()
FrameLevel(f) == f.args[1].val[1]

\* what C19 says of one step of the fader
FaderRampStep ==
    /\ FaderCalls("output") =>
        /\ frame'["fader"].args[1] = PyList(Repeat(b, NumChannels))
        /\ IF frame["fader"].op = "output"
           THEN /\ FrameLevel(frame'["fader"]) - FrameLevel(frame["fader"])
                        \in {-1, 0, 1}
                /\ result["fader"] = "ok"
           ELSE IF frame["fader"].op = "enable_leds"
           THEN b = 0
           ELSE frame["fader"].op = "enable" /\ b = FullByte
    /\ FaderCalls("disable") =>
        /\ b = FullByte
        /\ frame["fader"].op = "output"
        /\ FrameLevel(frame["fader"]) = FullByte
        /\ pc'["fader"] = "blip_sleep"
    /\ (FaderCalls("enable") /\ frame["fader"].op # "none") =>
        /\ b = FullByte
        /\ frame["fader"].op = "disable"
        /\ pc'["fader"] = "down_output"
    /\ (b' # b => (b' - b \in {-1, 1}
                    /\ pc'["fader"] \in {"up_output", "down_output"}))

\* C19: in the fader, b is in 0..255 in every state; every list passed to
\* output() is [b] * 18 for the b of that moment; the first frame is 0, a
\* frame differs from the one before it by at most 1, and the frame after
\* the blip is 255 as the one before it; disable() and the enable() after
\* it are called only with b = 255, after the upward ramp's frame of 255
\* and before the downward ramp's first frame.
C19_FaderRamp ==
    /\ [](b \in 0..FullByte)
    /\ [](frame["fader"].op = "output" =>
            /\ FrameLevel(frame["fader"]) \in 0..FullByte
            /\ frame["fader"].args[1] =
                    PyList(Repeat(FrameLevel(frame["fader"]), NumChannels))
            /\ (at["fader"] # "idle" => FrameLevel(frame["fader"]) = b))
    /\ [](pc["fader"] \in {"blip", "blip_disable", "blip_sleep", "blip_enable"} =>
            b = FullByte)
    /\ [](frame["fader"].op = "disable" => b = FullByte)
    /\ [][FaderRampStep]_vars

\* C19 witness: past the blip, the fader is writing the second frame of the
\* downward ramp
C19_Witness ==
    /\ InCall("fader", "output") /\ at["fader"] = "update"
    /\ pc["fader"] = "down_delay"
    /\ b = FullByte - 1
    /\ LastWrite.cmd = CMD_SET_PWM_VALUES /\ LastWrite.by = "fader"
====
